---- MODULE Spec2Model ----
(***************************************************************************)
(* Sales ETL pipeline (logic/calculator/etl.py): DataCalculator loads four *)
(* CSV tables through their pandera schemas, computes three aggregate      *)
(* views (weekly summary, mean rating, top-3 cities) and outer-merges them *)
(* into the stored output table.                                           *)
(*                                                                         *)
(* Representation.  A DataFrame is a sequence of records (rows, in row     *)
(* order).  A CSV timestamp cell is the tuple <<year, month, day, hour>>   *)
(* of the fields written in it, <<>> for an empty cell; a datetime64 value *)
(* is a number of hours since 1970-01-01 00:00.  Prices are integers       *)
(* (cents), a mean is the reduced fraction [num, den].  A cell of an       *)
(* object column that may hold values of different Python types is         *)
(* [type, val].  Only the columns the pipeline reads are carried.          *)
(***************************************************************************)
EXTENDS Integers, Sequences, FiniteSets, TLC

VARIABLES csv, pc, object_map, summary_df, product_ratings_df, product_sales_by_city_df, last_product_list, output, n_calls, raised, returned, output_directory, save_frame, other

vars == <<csv, pc, object_map, summary_df, product_ratings_df, product_sales_by_city_df, last_product_list, output, n_calls, raised, returned, output_directory, save_frame, other>>

----------------------------------------------------------------------------
(* Bounds of the explored inputs.                                          *)

\* rows of the order-items table in the general input family
MaxItems == 2
\* orders (one customer each) in the city-ranking input family
MaxCityOrders == 4
\* consecutive calendar days covered by the week-bucket input family
MaxDays == 15
\* calls of calculate_index, or of the aggregators, on one DataCalculator
MaxCalls == 2
\* multiples of the partition size around which the numbers of products lie
MaxChunks == 2
\* the largest of the small numbers of products
MaxFew == 8

----------------------------------------------------------------------------
(* Calendar arithmetic of datetime64 values (proleptic Gregorian).         *)

IsLeap(y) == (y % 4 = 0 /\ y % 100 # 0) \/ y % 400 = 0

DaysInMonth(y, m) == IF m = 2 THEN (IF IsLeap(y) THEN 29 ELSE 28) ELSE IF m \in {4, 6, 9, 11} THEN 30 ELSE 31

\* days from 1970-01-01 to the civil date y-m-d
DaysFromCivil(y, m, d) ==
    LET yy  == IF m <= 2 THEN y - 1 ELSE y
        era == yy \div 400
        yoe == yy - era * 400
        mp  == (m + 9) % 12
        doy == (153 * mp + 2) \div 5 + d - 1
        doe == yoe * 365 + yoe \div 4 - yoe \div 100 + doy
    IN  era * 146097 + doe - 719468

\* the civil date <<y, m, d>> of day number z
CivilFromDays(z) ==
    LET zz  == z + 719468
        era == zz \div 146097
        doe == zz - era * 146097
        yoe == (doe - doe \div 1460 + doe \div 36524 - doe \div 146096) \div 365
        doy == doe - (365 * yoe + yoe \div 4 - yoe \div 100)
        mp  == (5 * doy + 2) \div 153
        d   == doy - (153 * mp + 2) \div 5 + 1
        m   == IF mp < 10 THEN mp + 3 ELSE mp - 9
        y   == yoe + era * 400 + (IF m <= 2 THEN 1 ELSE 0)
    IN  <<y, m, d>>

\* Monday = 0 ... Sunday = 6 (1970-01-01 was a Thursday)
Weekday(day) == (day + 3) % 7

\* a CSV timestamp cell that coerces to datetime64
ParsesAsDatetime(cell) ==
    /\ Len(cell) = 4
    /\ cell[2] \in 1..12
    /\ cell[3] \in 1..DaysInMonth(cell[1], cell[2])
    /\ cell[4] \in 0..23

\* the datetime64 value of a parseable cell, in hours since the epoch
ToDatetime(cell) == DaysFromCivil(cell[1], cell[2], cell[3]) * 24 + cell[4]

Pad2(n) == IF n < 10 THEN "0" \o ToString(n) ELSE ToString(n)

\* Series.dt.strftime("%Y-%m-%d") of a datetime64 value
Strftime(stamp) ==
    LET c == CivilFromDays(stamp \div 24)
    IN  ToString(c[1]) \o "-" \o Pad2(c[2]) \o "-" \o Pad2(c[3])

\* faulty variant of WeekBin: bin edges left at Sunday 00:00, so that a Sunday
\* after midnight falls into the next week's bin
WeekBinNoAdjust(stamp) ==
    LET day == stamp \div 24
        sunday == day + (6 - Weekday(day))
    IN  IF Weekday(day) = 6 /\ stamp > day * 24 THEN (sunday + 7) * 24 ELSE sunday * 24

\* The end (a Sunday, 00:00) of the weekly bin a datetime falls in, as
\* pd.Grouper(freq="W") (W-SUN, closed and labelled on the right) bins it with
\* the bin edges moved to the end of their day: the bin of Sunday S holds
\* every instant after the end of the previous Sunday up to the end of S.
WeekBin(stamp) ==
    LET day == stamp \div 24
    IN  (day + (6 - Weekday(day))) * 24

----------------------------------------------------------------------------
(* Schemas and loading (DataCalculator.__init__).                          *)

\* OrdersSchema: order_purchase_timestamp is DateTime, nullable=False, coerce=True.
OrdersSchemaValid(df) == \A i \in 1..Len(df) : ParsesAsDatetime(df[i].order_purchase_timestamp)

\* OrdersObject(df): the validated orders table, timestamps coerced to datetime64.
OrdersObject(df) == [i \in 1..Len(df) |-> [df[i] EXCEPT !.order_purchase_timestamp = ToDatetime(@)]]

\* The other three objects keep the rows of their (valid) tables.
OrderItemsObject(df) == df

CustomersObject(df) == df

OrderReviewsObject(df) == df

_read_files(files) == [customers |-> CustomersObject(files.customers), order_items |-> OrderItemsObject(files.order_items), orders |-> OrdersObject(files.orders), order_reviews |-> OrderReviewsObject(files.order_reviews)]

\* ABObject.df: a copy of the stored table
df_copy(table) == table

----------------------------------------------------------------------------
(* DataFrame helpers.                                                      *)

Range(s) == {s[i] : i \in 1..Len(s)}

RECURSIVE Flatten(_)
Flatten(ss) == IF ss = <<>> THEN <<>> ELSE Head(ss) \o Flatten(Tail(ss))

RECURSIVE SumOf(_, _)
SumOf(rows, col) == IF rows = <<>> THEN 0 ELSE Head(rows)[col] + SumOf(Tail(rows), col)

RECURSIVE SortInts(_)
SortInts(S) ==
    IF S = {} THEN <<>>
    ELSE LET m == CHOOSE x \in S : \A z \in S : x <= z
         IN  <<m>> \o SortInts(S \ {m})

\* the product ids and city names of the explored inputs, in lexicographic order
ProductIds == <<"p1", "p2">>

CityNames == <<"bh", "rio", "sp", "ssa">>

ProductRank(p) == CHOOSE i \in 1..Len(ProductIds) : ProductIds[i] = p

\* the distinct values of a key among the rows, in sorted order (groupby sort=True)
SortedProducts(rows) == SelectSeq(ProductIds, LAMBDA p : \E i \in 1..Len(rows) : rows[i].product_id = p)

SortedCities(rows) == SelectSeq(CityNames, LAMBDA c : \E i \in 1..Len(rows) : rows[i].customer_city = c)

\* DataFrame.merge(right, on=key), how="inner": left row order, every match
merge(left, right, key) ==
    Flatten([i \in 1..Len(left) |->
        LET m == SelectSeq(right, LAMBDA r : r[key] = left[i][key])
        IN  [j \in 1..Len(m) |-> left[i] @@ m[j]]])

\* faulty variant of merge_outer: how="inner", products of one side only are lost
merge_inner_on_product(left, right) == merge(left, right, "product_id")

\* DataFrame.merge(right, on="product_id", how="outer"): keys in sorted order,
\* a side without the key leaves its columns absent (NaN)

merge_outer(left, right) ==
    LET keys == SortedProducts(left \o right)
    IN  Flatten([k \in 1..Len(keys) |->
            LET l == SelectSeq(left, LAMBDA r : r.product_id = keys[k])
                m == SelectSeq(right, LAMBDA r : r.product_id = keys[k])
            IN  IF m = <<>> THEN l
                ELSE IF l = <<>> THEN m
                ELSE Flatten([i \in 1..Len(l) |-> [j \in 1..Len(m) |-> l[i] @@ m[j]]])])

\* Python None, and a list, as the product_list argument
None == [given |-> FALSE, ids |-> <<>>]

List(ids) == [given |-> TRUE, ids |-> ids]

\* a str given as the product_list argument (a scalar in the configuration)
Str(text) == [given |-> TRUE, ids |-> <<>>, str |-> text]

IsStr(product_list) == "str" \in DOMAIN product_list

\* `product_list and len(product_list) > 0` holds of a non-empty str, and
\* Series.isin(str) raises TypeError
isin_raises(product_list) == IsStr(product_list) /\ product_list.str # ""

\* faulty variant of _filter_df_on_product_list: the list is ignored
filter_nothing(input_df, product_list) == input_df

_filter_df_on_product_list(input_df, product_list) ==
    IF product_list.given /\ Len(product_list.ids) > 0
    THEN SelectSeq(input_df, LAMBDA r : r.product_id \in Range(product_list.ids))
    ELSE input_df

----------------------------------------------------------------------------
(* The three aggregators.                                                  *)

\* Series.replace(old, new) on one cell
Replace(cell, old, new) == IF cell = old THEN new ELSE cell

\* faulty variant of agg_count: the distinct orders of the group are counted
agg_count_distinct_orders(group) == Cardinality({group[i].order_id : i \in 1..Len(group)})

\* "count": the number of (non-null) prices of the group
agg_count(group) == Len(group)

\* faulty variant of agg_sum: the rows are counted instead of the prices summed
agg_sum_of_ones(group) == Len(group)

\* "sum": the sum of the prices of the group
agg_sum(group) == SumOf(group, "price")

\* groupby(["product_id", Grouper(key="order_purchase_datetime", freq="W")])
\* ["price"].agg(["sum", "count"]).reset_index(): one row per observed
\* (product, weekly bin), sorted by product and bin
grouped_price_agg(merged_df) ==
    LET products == SortedProducts(merged_df)
    IN  Flatten([k \in 1..Len(products) |->
            LET mine  == SelectSeq(merged_df, LAMBDA r : r.product_id = products[k])
                weeks == SortInts({WeekBin(mine[i].order_purchase_datetime) : i \in 1..Len(mine)})
            IN  [w \in 1..Len(weeks) |->
                    LET g == SelectSeq(mine, LAMBDA r : WeekBin(r.order_purchase_datetime) = weeks[w])
                    IN  [product_id |-> products[k], order_purchase_datetime |-> weeks[w], sum |-> agg_sum(g), count |-> agg_count(g)]]])

\* faulty variant of calculate_summary: the orders are joined with the
\* customers first, an order without a customer row is lost
calculate_summary_joining_customers(om, product_list) ==
    LET joined == merge(merge(df_copy(om.orders), df_copy(om.customers), "customer_id"), df_copy(om.order_items), "order_id")
        merged_df == [i \in 1..Len(joined) |-> joined[i] @@ [order_purchase_datetime |-> joined[i].order_purchase_timestamp]]
        grouped == grouped_price_agg(merged_df)
        grouped_sales == [i \in 1..Len(grouped) |->
            [product_id |-> grouped[i].product_id,
             order_purchase_week |-> Replace(Strftime(grouped[i].order_purchase_datetime), "NaT", "unknown"),
             sum |-> grouped[i].sum,
             count |-> grouped[i].count]]
    IN  IF product_list.given /\ Len(product_list.ids) > 0
        THEN _filter_df_on_product_list(grouped_sales, product_list)
        ELSE grouped_sales

calculate_summary(om, product_list) ==
    LET joined == merge(df_copy(om.orders), df_copy(om.order_items), "order_id")
        merged_df == [i \in 1..Len(joined) |-> joined[i] @@ [order_purchase_datetime |-> joined[i].order_purchase_timestamp]]
        grouped == grouped_price_agg(merged_df)
        grouped_sales == [i \in 1..Len(grouped) |->
            [product_id |-> grouped[i].product_id,
             order_purchase_week |-> Replace(Strftime(grouped[i].order_purchase_datetime), "NaT", "unknown"),
             sum |-> grouped[i].sum,
             count |-> grouped[i].count]]
    IN  IF product_list.given /\ Len(product_list.ids) > 0
        THEN _filter_df_on_product_list(grouped_sales, product_list)
        ELSE grouped_sales

RECURSIVE Gcd(_, _)
Gcd(a, b) == IF b = 0 THEN a ELSE Gcd(b, a % b)

\* the quotient total / n as a reduced fraction
Fraction(total, n) == LET g == Gcd(total, n) IN [num |-> total \div g, den |-> n \div g]

\* faulty variant of Mean: the scores are summed, not averaged
SumNotMean(rows, col) == Fraction(SumOf(rows, col), 1)

\* Series.mean() of a column over a non-empty group of rows
Mean(rows, col) == Fraction(SumOf(rows, col), Len(rows))

calculate_product_ratings(om, product_list) ==
    LET orders_reviews_merged == merge(merge(df_copy(om.orders), df_copy(om.order_reviews), "order_id"), df_copy(om.order_items), "order_id")
        products == SortedProducts(orders_reviews_merged)
        product_ratings == [k \in 1..Len(products) |->
            [product_id |-> products[k],
             mean_product_rating |-> Mean(SelectSeq(orders_reviews_merged, LAMBDA r : r.product_id = products[k]), "review_score")]]
    IN  IF product_list.given /\ Len(product_list.ids) > 0
        THEN _filter_df_on_product_list(product_ratings, product_list)
        ELSE product_ratings

\* row a sorts strictly before row b under by=["product_id", "sales_count"], ascending=[True, False]
SortsBefore(a, b) ==
    \/ ProductRank(a.product_id) < ProductRank(b.product_id)
    \/ a.product_id = b.product_id /\ a.sales_count > b.sales_count

\* faulty variant of sort_values: sales_count ascending
RECURSIVE sort_values_ascending(_)
sort_values_ascending(df) ==
    IF df = <<>> THEN <<>>
    ELSE LET sorted == sort_values_ascending(SubSeq(df, 1, Len(df) - 1))
             x == df[Len(df)]
             k == Cardinality({i \in 1..Len(sorted) : ~(ProductRank(x.product_id) < ProductRank(sorted[i].product_id) \/ (x.product_id = sorted[i].product_id /\ x.sales_count < sorted[i].sales_count))})
         IN  SubSeq(sorted, 1, k) \o <<x>> \o SubSeq(sorted, k + 1, Len(sorted))

\* DataFrame.sort_values(by=["product_id", "sales_count"], ascending=[True, False]):
\* a stable sort, rows with equal keys keep their order
RECURSIVE sort_values(_)
sort_values(df) ==
    IF df = <<>> THEN <<>>
    ELSE LET sorted == sort_values(SubSeq(df, 1, Len(df) - 1))
             x == df[Len(df)]
             k == Cardinality({i \in 1..Len(sorted) : ~SortsBefore(x, sorted[i])})
         IN  SubSeq(sorted, 1, k) \o <<x>> \o SubSeq(sorted, k + 1, Len(sorted))

\* groupby("product_id").head(n): the first n rows of every product, in row order
head(df, n) ==
    LET ranked == [i \in 1..Len(df) |-> [row |-> df[i], before |-> Cardinality({j \in 1..(i - 1) : df[j].product_id = df[i].product_id})]]
        kept == SelectSeq(ranked, LAMBDA e : e.before < n)
    IN  [i \in 1..Len(kept) |-> kept[i].row]

\* faulty variant of count_by_product_city: nunique, the distinct orders
count_distinct_orders_by_product_city(merged_df) ==
    LET products == SortedProducts(merged_df)
    IN  Flatten([k \in 1..Len(products) |->
            LET mine   == SelectSeq(merged_df, LAMBDA r : r.product_id = products[k])
                cities == SortedCities(mine)
            IN  [c \in 1..Len(cities) |->
                    [product_id |-> products[k], customer_city |-> cities[c],
                     sales_count |-> Cardinality({mine[i].order_id : i \in {j \in 1..Len(mine) : mine[j].customer_city = cities[c]}})]]])

\* groupby(["product_id", "customer_city"])["order_id"].count().reset_index()
\* .rename(columns={"order_id": "sales_count"})
count_by_product_city(merged_df) ==
    LET products == SortedProducts(merged_df)
    IN  Flatten([k \in 1..Len(products) |->
            LET mine   == SelectSeq(merged_df, LAMBDA r : r.product_id = products[k])
                cities == SortedCities(mine)
            IN  [c \in 1..Len(cities) |->
                    [product_id |-> products[k], customer_city |-> cities[c],
                     sales_count |-> Len(SelectSeq(mine, LAMBDA r : r.customer_city = cities[c]))]]])

calculate_product_sales_by_city(om, product_list) ==
    LET orders_customers_merged == merge(merge(df_copy(om.orders), df_copy(om.customers), "customer_id"), df_copy(om.order_items), "order_id")
        product_city_sales == count_by_product_city(orders_customers_merged)
        sorted_product_city_sales == sort_values(product_city_sales)
        top_3_selling_cities == head(sorted_product_city_sales, 3)
        products == SortedProducts(top_3_selling_cities)
        grouped_top_3_selling_cities == [k \in 1..Len(products) |->
            LET mine == SelectSeq(top_3_selling_cities, LAMBDA r : r.product_id = products[k])
            IN  [product_id |-> products[k], customer_city |-> [i \in 1..Len(mine) |-> mine[i].customer_city]]]
    IN  IF product_list.given /\ Len(product_list.ids) > 0
        THEN _filter_df_on_product_list(grouped_top_3_selling_cities, product_list)
        ELSE grouped_top_3_selling_cities

----------------------------------------------------------------------------
(* The output assembler (calculate_index).                                 *)

Cell(pytype, v) == [type |-> pytype, val |-> v]

\* the float64 value of an integer
FloatOf(n) == Fraction(n, 1)

\* NaN as a float64 cell
NaN == [num |-> 0, den |-> 0]

\* faulty variant of fillna: the float column of the ratings is left unfilled
fillna_but_rating(df, value) ==
    [i \in 1..Len(df) |->
        LET r == df[i]
            has(col) == col \in DOMAIN r
        IN  [product_id |-> r.product_id,
             order_purchase_week |-> IF has("order_purchase_week") THEN Cell("str", r.order_purchase_week) ELSE Cell("int", value),
             sum |-> IF has("sum") THEN r.sum ELSE value,
             count |-> IF has("count") THEN r.count ELSE value,
             mean_product_rating |-> IF has("mean_product_rating") THEN r.mean_product_rating ELSE NaN,
             customer_city |-> IF has("customer_city") THEN Cell("list", r.customer_city) ELSE Cell("int", value)]]

\* DataFrame.fillna(value) on the merged frame: every absent (NaN) cell becomes
\* the value.  The cells of the two object columns carry their Python type
\* from here on.
fillna(df, value) ==
    [i \in 1..Len(df) |->
        LET r == df[i]
            has(col) == col \in DOMAIN r
        IN  [product_id |-> r.product_id,
             order_purchase_week |-> IF has("order_purchase_week") THEN Cell("str", r.order_purchase_week) ELSE Cell("int", value),
             sum |-> IF has("sum") THEN r.sum ELSE value,
             count |-> IF has("count") THEN r.count ELSE value,
             mean_product_rating |-> IF has("mean_product_rating") THEN r.mean_product_rating ELSE FloatOf(value),
             customer_city |-> IF has("customer_city") THEN Cell("list", r.customer_city) ELSE Cell("int", value)]]

\* Series.astype(str) on one cell
astype_str(cell) == IF cell.type = "int" THEN ToString(cell.val) ELSE cell.val

\* the locals of calculate_index up to the assignment of self._output
calculate_index(om, product_list) ==
    LET summary == calculate_summary(om, product_list)
        ratings == calculate_product_ratings(om, product_list)
        cities  == calculate_product_sales_by_city(om, product_list)
        filled  == fillna(merge_outer(merge_outer(summary, ratings), cities), 0)
    IN  [summary_df |-> summary,
         product_ratings_df |-> ratings,
         product_sales_by_city_df |-> cities,
         output_df |-> [i \in 1..Len(filled) |-> [filled[i] EXCEPT !.order_purchase_week = astype_str(@)]]]

\* faulty variant of store_output: the new rows are appended to the stored ones
store_output_append(stored, output_df) == stored \o output_df

\* self._output = output_df
store_output(stored, output_df) == output_df

----------------------------------------------------------------------------
(* The sink (DataCalculator.save_output_to_parquet).  A directory is       *)
(* [exists, stale, partitions]: stale holds the entries found in it before *)
(* the call, partitions[i + 1] the rows written under partition_i.         *)

\* product ids per partition
PARTITION_SIZE == 1024

Max(a, b) == IF a >= b THEN a ELSE b

Min(a, b) == IF a <= b THEN a ELSE b

\* Series.unique(): the distinct values in order of first appearance
unique(column) ==
    LET placed == [i \in 1..Len(column) |-> [at |-> i, val |-> column[i]]]
        firsts == SelectSeq(placed, LAMBDA e : \A j \in 1..(e.at - 1) : column[j] # e.val)
    IN  [k \in 1..Len(firsts) |-> firsts[k].val]

\* for item in os.listdir(output_directory): unlink or rmtree
clean_directory(directory) == [directory EXCEPT !.stale = {}, !.partitions = <<>>]

\* max(1, len(unique_product_ids) // 1024)
num_partitions(unique_product_ids) == Max(1, Len(unique_product_ids) \div PARTITION_SIZE)

\* unique_product_ids[start_index:end_index]
product_ids_partition(unique_product_ids, partition_index) ==
    SubSeq(unique_product_ids, partition_index * PARTITION_SIZE + 1, Min((partition_index + 1) * PARTITION_SIZE, Len(unique_product_ids)))

\* self.get_output[self.get_output["product_id"].isin(product_ids_partition)]
output_df_partition(output_df, ids) ==
    LET listed == Range(ids)
    IN  SelectSeq(output_df, LAMBDA r : r.product_id \in listed)

\* os.makedirs(partition_dir, exist_ok=True): the directory of the partition
\* exists from here on, empty if it is new
makedirs(directory, partition_index) ==
    [directory EXCEPT !.partitions = [i \in 1..Max(Len(@), partition_index + 1) |-> IF i <= Len(@) THEN @[i] ELSE <<>>]]

\* pa.Table.from_pandas(output_df_partition) raises ArrowInvalid on an object
\* column that holds lists and integers
from_pandas_raises(table) ==
    /\ \E i \in 1..Len(table) : table[i].customer_city.type = "list"
    /\ \E i \in 1..Len(table) : table[i].customer_city.type = "int"

\* pq.write_to_dataset(table, root_path=partition_dir, partition_cols=["product_id"])
write_to_dataset(directory, partition_index, table) ==
    [directory EXCEPT !.partitions = [i \in 1..Max(Len(@), partition_index + 1) |-> IF i = partition_index + 1 THEN table ELSE IF i <= Len(@) THEN @[i] ELSE <<>>]]

----------------------------------------------------------------------------
(* The frames of a call, and the stored tables after it.  A frame is an    *)
(* object: rows, and the stored table it is ("" for an object the call    *)
(* made).  An assignment into a frame that is a stored table changes that  *)
(* table.                                                                  *)

Frame(rows, of) == [rows |-> rows, of |-> of]

\* self._object_map[name]._df: the frame kept in the object of a table
_df(om, name) == Frame(om[name], name)

\* ABObject.df: self._df.copy(), a new object with the same rows
ABObject_df(frame) == Frame(df_copy(frame.rows), "")

\* OrdersObject.df: the class is not among the sources; its df hands out a
\* copy, or the stored frame itself
OrdersObject_df(frame, copied) == IF copied THEN ABObject_df(frame) ELSE frame

\* the getters of DataCalculator
orders_object(om, copied) == OrdersObject_df(_df(om, "orders"), copied)

order_items_object(om) == ABObject_df(_df(om, "order_items"))

customers_object(om) == ABObject_df(_df(om, "customers"))

order_reviews_object(om) == ABObject_df(_df(om, "order_reviews"))

\* faulty variant of DataFrame_merge: the join is written into the left frame
DataFrame_merge_into_left(left, right, key) == Frame(merge(left.rows, right.rows, key), left.of)

\* left.merge(right, on=key): a new frame
DataFrame_merge(left, right, key) == Frame(merge(left.rows, right.rows, key), "")

\* frame[column] = values: the column is set in the frame itself
setitem(frame, cells) == Frame([i \in 1..Len(frame.rows) |-> cells[i] @@ frame.rows[i]], frame.of)

\* the stored tables after the frames of a call were assigned into, in turn
RECURSIVE tables_after(_, _)
tables_after(om, frames) ==
    IF frames = <<>> THEN om
    ELSE LET frame == Head(frames)
         IN  tables_after(IF frame.of = "" THEN om ELSE [om EXCEPT ![frame.of] = frame.rows], Tail(frames))

\* calculate_summary: the frames it assigns a column into, merged_df and the
\* grouped_sales that groupby(...).agg(...).reset_index() made
calculate_summary_assigns(om, copied) ==
    LET merged_df == DataFrame_merge(orders_object(om, copied), order_items_object(om), "order_id")
        with_datetime == setitem(merged_df, [i \in 1..Len(merged_df.rows) |-> [order_purchase_datetime |-> merged_df.rows[i].order_purchase_timestamp]])
        grouped_sales == Frame(grouped_price_agg(with_datetime.rows), "")
        with_label == setitem(grouped_sales, [i \in 1..Len(grouped_sales.rows) |-> [order_purchase_datetime |-> Replace(Strftime(grouped_sales.rows[i].order_purchase_datetime), "NaT", "unknown")]])
    IN  <<with_datetime, with_label>>

\* calculate_product_ratings: its frames come of the getters, of merge,
\* groupby, rename and the filter, each a new frame; it assigns into none
calculate_product_ratings_assigns(om, copied) == <<>>

\* calculate_product_sales_by_city: likewise it assigns into none
calculate_product_sales_by_city_assigns(om, copied) == <<>>

\* calculate_index: the three aggregators in turn, then the week column is
\* set in output_df, the frame that merge and fillna made
calculate_index_tables(om, copied, output_df) ==
    LET after_summary == tables_after(om, calculate_summary_assigns(om, copied))
        after_ratings == tables_after(after_summary, calculate_product_ratings_assigns(after_summary, copied))
        after_cities == tables_after(after_ratings, calculate_product_sales_by_city_assigns(after_ratings, copied))
        with_week == setitem(Frame(output_df, ""), [i \in 1..Len(output_df) |-> [order_purchase_week |-> output_df[i].order_purchase_week]])
    IN  tables_after(after_cities, <<with_week>>)

----------------------------------------------------------------------------
(* Input tables.                                                           *)

Order(i, c, t) == [order_id |-> "o" \o ToString(i), customer_id |-> c, order_purchase_timestamp |-> t]

Item(o, p, price) == [order_id |-> o, product_id |-> p, price |-> price]

Customer(c, city) == [customer_id |-> c, customer_city |-> city]

Review(o, score) == [order_id |-> o, review_score |-> score]

\* a Monday morning and the next Monday at midnight
TsA == <<2023, 1, 2, 10>>

TsB == <<2023, 1, 9, 0>>

\* General family: up to two orders, a first customer that may be missing or
\* listed twice, up to MaxItems order items over two orders and two products
\* (listed by order, then product), and at most one review per order.
GenOrders ==
    {<<>>}
    \cup {<<Order(1, "c1", t)>> : t \in {TsA, TsB}}
    \cup {<<Order(1, "c1", t), Order(2, d, TsB)>> : t \in {TsA, TsB}, d \in {"c1", "c2"}}

GenCustomers ==
    {a \o <<Customer("c2", "rio")>> : a \in {<<>>, <<Customer("c1", "sp")>>, <<Customer("c1", "sp"), Customer("c1", "rio")>>}}

ItemKeys == <<<<"o1", "p1">>, <<"o1", "p2">>, <<"o2", "p1">>, <<"o2", "p2">>>>

GenItems ==
    UNION {{[i \in 1..n |-> Item(ItemKeys[f[i]][1], ItemKeys[f[i]][2], 10 * i)] :
                f \in {g \in [1..n -> 1..Len(ItemKeys)] : \A i \in 1..(n - 1) : g[i] <= g[i + 1]}} : n \in 0..MaxItems}

GenReviews == {<<>>, <<Review("o1", 5)>>, <<Review("o2", 2)>>, <<Review("o1", 5), Review("o2", 2)>>}

GeneralInputs == [orders : GenOrders, customers : GenCustomers, order_items : GenItems, order_reviews : GenReviews]

\* City family: MaxCityOrders orders of one product, each by its own customer,
\* the customers spread over the cities in every way; the first order holds
\* two items.
CityInputs ==
    {[orders |-> [i \in 1..MaxCityOrders |-> Order(i, "c" \o ToString(i), TsA)],
      customers |-> [i \in 1..MaxCityOrders |-> Customer("c" \o ToString(i), f[i])],
      order_items |-> [i \in 1..MaxCityOrders |-> Item("o" \o ToString(i), "p1", 10)] \o <<Item("o1", "p1", 10)>>,
      order_reviews |-> <<>>] : f \in [1..MaxCityOrders -> Range(CityNames)]}

\* Week family: two orders of one product; the first is bought at the start or
\* the end of any of MaxDays consecutive days from a Monday before a year's
\* end or before a leap day, the second at a fixed instant around a week's end.
WeekCells ==
    {LET c == CivilFromDays(DaysFromCivil(s[1], s[2], s[3]) + k) IN <<c[1], c[2], c[3], h>> :
        s \in {<<2022, 12, 19>>, <<2024, 2, 19>>}, k \in 0..(MaxDays - 1), h \in {0, 23}}

WeekAnchors == {<<2022, 12, 25, 23>>, <<2022, 12, 26, 0>>, <<2024, 2, 29, 12>>}

WeekInputs ==
    {[orders |-> <<Order(1, "c1", t), Order(2, "c1", u)>>,
      customers |-> <<Customer("c1", "sp")>>,
      order_items |-> <<Item("o1", "p1", 10), Item("o2", "p1", 20)>>,
      order_reviews |-> <<>>] : t \in WeekCells, u \in WeekAnchors}

\* Families with a purchase timestamp that is empty or is no date.
BadCells == {<<>>, <<2023, 2, 30, 10>>, <<2023, 13, 1, 0>>, <<2023, 1, 2, 24>>}

BadInputs ==
    {[orders |-> o,
      customers |-> <<Customer("c1", "sp")>>,
      order_items |-> <<Item("o1", "p1", 10), Item("o2", "p1", 20)>>,
      order_reviews |-> <<Review("o1", 5)>>] :
        o \in {<<Order(1, "c1", b)>> : b \in BadCells} \cup {<<Order(1, "c1", TsA), Order(2, "c1", b)>> : b \in BadCells}}

Inputs == GeneralInputs \cup CityInputs \cup WeekInputs \cup BadInputs

ProductLists == {None, List(<<>>), List(<<"p1">>)}

----------------------------------------------------------------------------
(* The state machine.                                                      *)

\* no aggregator has returned; no output directory is involved
NoReturn == [fn |-> "", product_list |-> None, value |-> <<>>, calls |-> 0]

NoDirectory == [exists |-> FALSE, stale |-> {}, partitions |-> <<>>]

NoFrame == [unique_product_ids |-> <<>>, num_partitions |-> 0, partition_index |-> 0]

NoTables == [customers |-> <<>>, order_items |-> <<>>, orders |-> <<>>, order_reviews |-> <<>>]

\* no second DataCalculator is constructed
NoInstance == [object_map |-> NoTables, output |-> <<>>, last_product_list |-> None, n_calls |-> 0]

Init ==
    /\ csv \in Inputs
    /\ pc = "new"
    /\ object_map = NoTables
    /\ summary_df = <<>>
    /\ product_ratings_df = <<>>
    /\ product_sales_by_city_df = <<>>
    /\ last_product_list = None
    /\ output = <<>>
    /\ n_calls = 0
    /\ raised = ""
    /\ returned = NoReturn
    /\ output_directory = NoDirectory
    /\ save_frame = NoFrame
    /\ other = NoInstance

\* DataCalculator(csv_directory): every table passes its schema
ReadFilesOk ==
    /\ pc = "new"
    /\ OrdersSchemaValid(csv.orders)
    /\ object_map' = _read_files(csv)
    /\ output' = <<>>
    /\ pc' = "ready"
    /\ UNCHANGED <<csv, summary_df, product_ratings_df, product_sales_by_city_df, last_product_list, n_calls, raised, returned, output_directory, save_frame, other>>

\* DataCalculator(csv_directory): a schema error leaves no object behind
ReadFilesFail ==
    /\ pc = "new"
    /\ ~OrdersSchemaValid(csv.orders)
    /\ pc' = "load_failed"
    /\ raised' = "SchemaError"
    /\ UNCHANGED <<csv, object_map, summary_df, product_ratings_df, product_sales_by_city_df, last_product_list, output, n_calls, returned, output_directory, save_frame, other>>

\* data_object.calculate_index(product_list)
CalculateIndex(product_list) ==
    /\ pc = "ready"
    /\ n_calls < MaxCalls
    /\ LET locals == calculate_index(object_map, product_list)
       IN  /\ summary_df' = locals.summary_df
           /\ product_ratings_df' = locals.product_ratings_df
           /\ product_sales_by_city_df' = locals.product_sales_by_city_df
           /\ output' = store_output(output, locals.output_df)
           /\ \E copied \in BOOLEAN : object_map' = calculate_index_tables(object_map, copied, locals.output_df)
    /\ last_product_list' = product_list
    /\ n_calls' = n_calls + 1
    /\ raised' = ""
    /\ UNCHANGED <<csv, pc, returned, output_directory, save_frame, other>>

\* a product_list that makes the filter raise
BadProductLists == {Str("p1")}

\* faulty variant of CalculateIndexRaises: the frame merged so far is stored
CalculateIndexRaisesStoring(product_list) ==
    /\ pc = "ready"
    /\ n_calls < MaxCalls
    /\ isin_raises(product_list)
    /\ output' = merge_outer(calculate_summary(object_map, None), calculate_product_ratings(object_map, None))
    /\ \E copied \in BOOLEAN : object_map' = tables_after(object_map, calculate_summary_assigns(object_map, copied))
    /\ raised' = "TypeError"
    /\ UNCHANGED <<csv, pc, summary_df, product_ratings_df, product_sales_by_city_df, last_product_list, n_calls, returned, output_directory, save_frame, other>>

\* data_object.calculate_index(product_list) raises in the filter of the first
\* aggregator: the assignment of self._output is not reached
CalculateIndexRaises(product_list) ==
    /\ pc = "ready"
    /\ n_calls < MaxCalls
    /\ isin_raises(product_list)
    /\ \E copied \in BOOLEAN : object_map' = tables_after(object_map, calculate_summary_assigns(object_map, copied))
    /\ raised' = "TypeError"
    /\ UNCHANGED <<csv, pc, summary_df, product_ratings_df, product_sales_by_city_df, last_product_list, output, n_calls, returned, output_directory, save_frame, other>>

Next ==
    \/ ReadFilesOk
    \/ ReadFilesFail
    \/ \E product_list \in ProductLists : CalculateIndex(product_list)
    \/ \E product_list \in BadProductLists : CalculateIndexRaises(product_list)

Spec == Init /\ [][Next]_vars

----------------------------------------------------------------------------
(* A run of main (logic/calculator/run.py): construct, calculate_index     *)
(* with the configured product_list, save_output_to_parquet.               *)

\* Inputs of the runs of main: the general family with one customer and one
\* review table, and the families with a bad timestamp.
MainInputs ==
    {in \in GeneralInputs : in.customers = <<Customer("c2", "rio")>> /\ in.order_reviews = <<Review("o1", 5)>>} \cup BadInputs

\* the output directory before the run: missing, or holding any of a stale
\* file and a stale directory
Directories == {NoDirectory} \cup {[exists |-> TRUE, stale |-> S, partitions |-> <<>>] : S \in SUBSET {"file", "dir"}}

MainInit ==
    /\ csv \in MainInputs
    /\ pc = "new"
    /\ object_map = NoTables
    /\ summary_df = <<>>
    /\ product_ratings_df = <<>>
    /\ product_sales_by_city_df = <<>>
    /\ last_product_list = None
    /\ output = <<>>
    /\ n_calls = 0
    /\ raised = ""
    /\ returned = NoReturn
    /\ output_directory \in Directories
    /\ save_frame = NoFrame
    /\ other = NoInstance

\* data_object.calculate_index(product_list=product_list) in main
MainCalculateIndex(product_list) ==
    /\ pc = "ready"
    /\ LET locals == calculate_index(object_map, product_list)
       IN  /\ summary_df' = locals.summary_df
           /\ product_ratings_df' = locals.product_ratings_df
           /\ product_sales_by_city_df' = locals.product_sales_by_city_df
           /\ output' = store_output(output, locals.output_df)
           /\ \E copied \in BOOLEAN : object_map' = calculate_index_tables(object_map, copied, locals.output_df)
    /\ last_product_list' = product_list
    /\ n_calls' = n_calls + 1
    /\ pc' = "aggregated"
    /\ UNCHANGED <<csv, raised, returned, output_directory, save_frame, other>>

\* calculate_index raises in the first aggregator's filter; main ends
MainCalculateIndexRaises(product_list) ==
    /\ pc = "ready"
    /\ isin_raises(product_list)
    /\ \E copied \in BOOLEAN : object_map' = tables_after(object_map, calculate_summary_assigns(object_map, copied))
    /\ pc' = "aggregate_failed"
    /\ raised' = "TypeError"
    /\ UNCHANGED <<csv, summary_df, product_ratings_df, product_sales_by_city_df, last_product_list, output, n_calls, returned, output_directory, save_frame, other>>

\* faulty variant of SaveClean: the directory is emptied before calculate_index
SaveCleanBeforeAggregation ==
    /\ pc = "ready"
    /\ output_directory.exists
    /\ output_directory' = clean_directory(output_directory)
    /\ save_frame' = [unique_product_ids |-> <<>>, num_partitions |-> 1, partition_index |-> 0]
    /\ pc' = "writing"
    /\ UNCHANGED <<csv, object_map, summary_df, product_ratings_df, product_sales_by_city_df, last_product_list, output, n_calls, raised, returned, other>>

\* save_output_to_parquet: the directory is emptied, the ids are chunked
SaveClean ==
    /\ pc = "aggregated"
    /\ output_directory.exists
    /\ output_directory' = clean_directory(output_directory)
    /\ LET unique_product_ids == unique([i \in 1..Len(output) |-> output[i].product_id])
       IN  save_frame' = [unique_product_ids |-> unique_product_ids, num_partitions |-> num_partitions(unique_product_ids), partition_index |-> 0]
    /\ pc' = "writing"
    /\ UNCHANGED <<csv, object_map, summary_df, product_ratings_df, product_sales_by_city_df, last_product_list, output, n_calls, raised, returned, other>>

\* save_output_to_parquet: os.unlink or shutil.rmtree of an entry raises (the
\* file system refuses the removal); the entries listed before it are gone,
\* the entry and those listed after it are left, os.listdir giving any order
SaveCleanRaises ==
    /\ pc = "aggregated"
    /\ output_directory.exists
    /\ \E left \in (SUBSET output_directory.stale) \ {{}} : output_directory' = [output_directory EXCEPT !.stale = left]
    /\ pc' = "sink_failed"
    /\ raised' = "OSError"
    /\ UNCHANGED <<csv, object_map, summary_df, product_ratings_df, product_sales_by_city_df, last_product_list, output, n_calls, returned, save_frame, other>>

\* save_output_to_parquet: os.listdir of a missing directory raises
SaveListdirRaises ==
    /\ pc = "aggregated"
    /\ ~output_directory.exists
    /\ pc' = "sink_failed"
    /\ raised' = "FileNotFoundError"
    /\ UNCHANGED <<csv, object_map, summary_df, product_ratings_df, product_sales_by_city_df, last_product_list, output, n_calls, returned, output_directory, save_frame, other>>

\* save_output_to_parquet: one turn of the loop over the partitions
SaveWritePartition ==
    /\ pc = "writing"
    /\ save_frame.partition_index < save_frame.num_partitions
    /\ LET table == output_df_partition(output, product_ids_partition(save_frame.unique_product_ids, save_frame.partition_index))
       IN  /\ ~from_pandas_raises(table)
           /\ output_directory' = write_to_dataset(makedirs(output_directory, save_frame.partition_index), save_frame.partition_index, table)
    /\ save_frame' = [save_frame EXCEPT !.partition_index = @ + 1]
    /\ pc' = IF save_frame.partition_index + 1 = save_frame.num_partitions THEN "saved" ELSE "writing"
    /\ UNCHANGED <<csv, object_map, summary_df, product_ratings_df, product_sales_by_city_df, last_product_list, output, n_calls, raised, returned, other>>

\* save_output_to_parquet: the directory of the partition is made, then the
\* conversion of a partition whose top-cities column mixes lists with the
\* filled 0 raises
SaveFromPandasRaises ==
    /\ pc = "writing"
    /\ save_frame.partition_index < save_frame.num_partitions
    /\ from_pandas_raises(output_df_partition(output, product_ids_partition(save_frame.unique_product_ids, save_frame.partition_index)))
    /\ output_directory' = makedirs(output_directory, save_frame.partition_index)
    /\ pc' = "sink_failed"
    /\ raised' = "ArrowInvalid"
    /\ UNCHANGED <<csv, object_map, summary_df, product_ratings_df, product_sales_by_city_df, last_product_list, output, n_calls, returned, save_frame, other>>

\* save_output_to_parquet: os.makedirs raises (the file system refuses the new
\* directory); no directory of the partition is left
SaveMakedirsRaises ==
    /\ pc = "writing"
    /\ save_frame.partition_index < save_frame.num_partitions
    /\ pc' = "sink_failed"
    /\ raised' = "OSError"
    /\ UNCHANGED <<csv, object_map, summary_df, product_ratings_df, product_sales_by_city_df, last_product_list, output, n_calls, returned, output_directory, save_frame, other>>

\* save_output_to_parquet: the directory of the partition is made, then the
\* write raises (the file system refuses) after the files of the first k
\* products of the partition are written, for any k from none to all of them
SaveWriteRaises ==
    /\ pc = "writing"
    /\ save_frame.partition_index < save_frame.num_partitions
    /\ LET ids == product_ids_partition(save_frame.unique_product_ids, save_frame.partition_index)
           table == output_df_partition(output, ids)
       IN  /\ ~from_pandas_raises(table)
           /\ \E k \in 0..Len(ids) :
                 output_directory' = write_to_dataset(makedirs(output_directory, save_frame.partition_index), save_frame.partition_index, output_df_partition(table, SubSeq(ids, 1, k)))
    /\ pc' = "sink_failed"
    /\ raised' = "OSError"
    /\ UNCHANGED <<csv, object_map, summary_df, product_ratings_df, product_sales_by_city_df, last_product_list, output, n_calls, returned, save_frame, other>>

MainNext ==
    \/ ReadFilesOk
    \/ ReadFilesFail
    \/ \E product_list \in ProductLists : MainCalculateIndex(product_list)
    \/ \E product_list \in BadProductLists : MainCalculateIndexRaises(product_list)
    \/ SaveClean
    \/ SaveCleanRaises
    \/ SaveListdirRaises
    \/ SaveWritePartition
    \/ SaveMakedirsRaises
    \/ SaveFromPandasRaises
    \/ SaveWriteRaises

MainSpec == MainInit /\ [][MainNext]_vars

----------------------------------------------------------------------------
(* Properties.  The joins are restated here as sets of row positions of    *)
(* the loaded tables, independently of the operators above.                *)

\* calculate_index has run on a loaded DataCalculator
Called == pc = "ready" /\ n_calls > 0

\* the allow-list is supplied and non-empty
Effective(product_list) == product_list.given /\ Len(product_list.ids) > 0

Admits(product_list, p) == ~Effective(product_list) \/ p \in Range(product_list.ids)

\* Order |x| OrderItem, Order |x| Customer |x| OrderItem, Order |x| OrderReview |x| OrderItem
PairsOI ==
    {x \in (1..Len(object_map.orders)) \X (1..Len(object_map.order_items)) :
        object_map.orders[x[1]].order_id = object_map.order_items[x[2]].order_id}

TriplesOCI ==
    {x \in (1..Len(object_map.orders)) \X (1..Len(object_map.customers)) \X (1..Len(object_map.order_items)) :
        /\ object_map.orders[x[1]].customer_id = object_map.customers[x[2]].customer_id
        /\ object_map.orders[x[1]].order_id = object_map.order_items[x[3]].order_id}

TriplesORI ==
    {x \in (1..Len(object_map.orders)) \X (1..Len(object_map.order_reviews)) \X (1..Len(object_map.order_items)) :
        /\ object_map.orders[x[1]].order_id = object_map.order_reviews[x[2]].order_id
        /\ object_map.orders[x[1]].order_id = object_map.order_items[x[3]].order_id}

\* the positions of the rows of a frame that belong to product p
RowsOf(df, p) == {i \in 1..Len(df) : df[i].product_id = p}

ProductsOf(df) == {df[i].product_id : i \in 1..Len(df)}

ViewProducts == ProductsOf(summary_df) \cup ProductsOf(product_ratings_df) \cup ProductsOf(product_sales_by_city_df)

\* C1: with a non-empty allow-list supplied, no product_id outside it appears
\* in the summary, the ratings, the top cities or the stored output.
C1_AllowListExcludes ==
    (Called /\ Effective(last_product_list)) =>
        /\ ProductsOf(summary_df) \subseteq Range(last_product_list.ids)
        /\ ProductsOf(product_ratings_df) \subseteq Range(last_product_list.ids)
        /\ ProductsOf(product_sales_by_city_df) \subseteq Range(last_product_list.ids)
        /\ ProductsOf(output) \subseteq Range(last_product_list.ids)

\* C1 witness: the list ["p1"] was applied to tables in which p2 has sales,
\* reviews and a city, and the output is not empty.
C1_Witness ==
    /\ Called
    /\ last_product_list = List(<<"p1">>)
    /\ output # <<>>
    /\ \E x \in TriplesOCI : object_map.order_items[x[3]].product_id = "p2"
    /\ \E x \in TriplesORI : object_map.order_items[x[3]].product_id = "p2"

\* C2 as claimed: every product_id of a view appears in exactly one row of the
\* assembled output.
C2_ExactlyOneRow ==
    Called => \A p \in ViewProducts : Cardinality(RowsOf(output, p)) = 1

\* C2 amended: every product_id of a view appears in the assembled output, in
\* exactly one row for each of its (product, week) rows of the summary (one
\* row in all if it has none), the rows of one product differing in their
\* week label.
C2_OneRowPerWeekBucket ==
    Called => \A p \in ViewProducts :
        LET n == Cardinality(RowsOf(summary_df, p))
        IN  /\ Cardinality(RowsOf(output, p)) = (IF n = 0 THEN 1 ELSE n)
            /\ \A i \in RowsOf(summary_df, p) : \E j \in RowsOf(output, p) :
                /\ output[j].order_purchase_week = summary_df[i].order_purchase_week
                /\ output[j].sum = summary_df[i].sum
                /\ output[j].count = summary_df[i].count
            /\ \A i, j \in RowsOf(output, p) : i # j => output[i].order_purchase_week # output[j].order_purchase_week

\* C2 witness: a product sold in two week buckets has two output rows, and a
\* product without any rating is in the output.
C2_Witness ==
    /\ Called
    /\ \E p \in ViewProducts : Cardinality(RowsOf(output, p)) = 2
    /\ \E p \in ViewProducts : RowsOf(product_ratings_df, p) = {} /\ RowsOf(output, p) # {}

\* C3 as claimed: the items of an order whose purchase timestamp is missing or
\* unparseable are still aggregated, in a summary row labelled "unknown".
C3_UnknownWeekLabel ==
    \A o \in 1..Len(csv.orders), i \in 1..Len(csv.order_items) :
        (/\ ~ParsesAsDatetime(csv.orders[o].order_purchase_timestamp)
         /\ csv.orders[o].order_id = csv.order_items[i].order_id
         /\ pc # "new")
        => /\ pc = "ready"
           /\ (n_calls > 0 /\ Admits(last_product_list, csv.order_items[i].product_id)) =>
                \E r \in 1..Len(summary_df) :
                    /\ summary_df[r].product_id = csv.order_items[i].product_id
                    /\ summary_df[r].order_purchase_week = "unknown"

\* C4 as claimed: a field absent after the two outer merges is filled with its
\* zero-equivalent: 0 for count, sum and mean rating, the empty list for the
\* top cities.
C4_ZeroEquivalents ==
    Called => \A i \in 1..Len(output) :
        LET r == output[i]
        IN  /\ RowsOf(summary_df, r.product_id) = {} => (r.sum = 0 /\ r.count = 0)
            /\ RowsOf(product_ratings_df, r.product_id) = {} => r.mean_product_rating = FloatOf(0)
            /\ RowsOf(product_sales_by_city_df, r.product_id) = {} => r.customer_city = Cell("list", <<>>)

\* the number of joined Order-Customer-OrderItem rows of product p in city c
SalesCount(p, c) ==
    Cardinality({x \in TriplesOCI :
        /\ object_map.order_items[x[3]].product_id = p
        /\ object_map.customers[x[2]].customer_city = c})

\* C5: every top-cities row lists between 1 and 3 cities, none twice, in
\* non-increasing order of their sales_count.
C5_TopCitiesOrdered ==
    Called => \A k \in 1..Len(product_sales_by_city_df) :
        LET p == product_sales_by_city_df[k].product_id
            top == product_sales_by_city_df[k].customer_city
        IN  /\ Len(top) \in 1..3
            /\ \A i, j \in 1..Len(top) : i # j => top[i] # top[j]
            /\ \A i \in 1..Len(top) : SalesCount(p, top[i]) >= 1
            /\ \A i \in 1..(Len(top) - 1) : SalesCount(p, top[i]) >= SalesCount(p, top[i + 1])

\* C5 witness: a product sold in four cities, one of them with two sales, is
\* listed with three cities.
C5_Witness ==
    /\ Called
    /\ \E k \in 1..Len(product_sales_by_city_df) :
        LET p == product_sales_by_city_df[k].product_id
            top == product_sales_by_city_df[k].customer_city
        IN  /\ Len(top) = 3
            /\ SalesCount(p, top[1]) = 2
            /\ Cardinality({c \in Range(CityNames) : SalesCount(p, c) >= 1}) = 4

\* C6: two DataCalculator objects constructed from the same files, each
\* called any number of times, hold equal outputs whenever the last call of
\* each had the same allow-list; and a call that repeats the allow-list of the
\* call before it on the same object leaves the stored output equal to the one
\* it replaces.  The tables each call reads are the tables its object holds
\* after the calls before it.
C6_TwoRunsEqual ==
    /\ []((n_calls >= 1 /\ other.n_calls >= 1 /\ other.last_product_list = last_product_list) => other.output = output)
    /\ [][(n_calls >= 1 /\ n_calls' = n_calls + 1 /\ last_product_list' = last_product_list) => output' = output]_vars

\* C6 witness: the first object was called twice, the second once with the
\* same allow-list as the last call of the first, and both hold the same rows
\* of two products.
C6_Witness ==
    /\ n_calls = 2
    /\ other.n_calls = 1
    /\ other.last_product_list = last_product_list
    /\ other.output = output
    /\ Cardinality(ProductsOf(output)) = 2

\* product p has order items, and no review row matches any of their orders
HasItems(p) == \E i \in 1..Len(object_map.order_items) : object_map.order_items[i].product_id = p

HasMatchingReview(p) ==
    \E i \in 1..Len(object_map.order_items), r \in 1..Len(object_map.order_reviews) :
        /\ object_map.order_items[i].product_id = p
        /\ object_map.order_reviews[r].order_id = object_map.order_items[i].order_id

\* C7: a product with order items but no matching review has no ratings row,
\* and each of its output rows has mean rating 0.
C7_NoReviewZeroRating ==
    Called => \A p \in Range(ProductIds) :
        (HasItems(p) /\ ~HasMatchingReview(p)) =>
            /\ RowsOf(product_ratings_df, p) = {}
            /\ \A i \in RowsOf(output, p) : output[i].mean_product_rating = FloatOf(0)

\* C7 witness: such a product has an output row while another product is rated.
C7_Witness ==
    /\ Called
    /\ product_ratings_df # <<>>
    /\ \E p \in Range(ProductIds) : HasItems(p) /\ ~HasMatchingReview(p) /\ RowsOf(output, p) # {}

\* the first Sunday on or after a day (2023-01-01 was a Sunday)
FirstSundayOnOrAfter(day) == CHOOSE s \in day..(day + 6) : (s - DaysFromCivil(2023, 1, 1)) % 7 = 0

\* YYYY-MM-DD of the first Sunday on or after the calendar day of a CSV timestamp
SundayLabel(cell) ==
    LET c == CivilFromDays(FirstSundayOnOrAfter(DaysFromCivil(cell[1], cell[2], cell[3])))
    IN  ToString(c[1]) \o "-" \o Pad2(c[2]) \o "-" \o Pad2(c[3])

\* the number of the Monday-to-Sunday window of a CSV timestamp (1969-12-29 was a Monday)
Window(cell) == (DaysFromCivil(cell[1], cell[2], cell[3]) - DaysFromCivil(1969, 12, 29)) \div 7

\* instants whose Sunday is known from the calendar
KnownSundays ==
    {<<<<2022, 12, 25, 23>>, "2022-12-25">>, <<<<2022, 12, 26, 0>>, "2023-01-01">>,
     <<<<2024, 2, 29, 12>>, "2024-03-03">>, <<TsA, "2023-01-08">>, <<TsB, "2023-01-15">>}

\* the purchase timestamps, as written in the CSV, of the joined Order-OrderItem rows of product p
PurchaseCells(p) == {csv.orders[x[1]].order_purchase_timestamp : x \in {y \in PairsOI : object_map.order_items[y[2]].product_id = p}}

\* C8: the week labels of a product's summary rows are the dates of the first
\* Sunday on or after each purchase day (a Sunday at any hour maps to itself),
\* one row per Monday-to-Sunday window, and never "unknown".
C8_WeekLabelIsNextSunday ==
    Called => \A p \in Range(ProductIds) : Admits(last_product_list, p) =>
        LET labels == {summary_df[i].order_purchase_week : i \in RowsOf(summary_df, p)}
        IN  /\ labels = {SundayLabel(c) : c \in PurchaseCells(p)}
            /\ "unknown" \notin labels
            /\ Cardinality(RowsOf(summary_df, p)) = Cardinality({Window(c) : c \in PurchaseCells(p)})
            /\ \A k \in KnownSundays : k[1] \in PurchaseCells(p) => k[2] \in labels

\* C8 witness: a purchase on Sunday 2023-01-01 at 23:00 and one on Monday
\* 2022-12-26 at 00:00 share the summary row labelled 2023-01-01.
C8_Witness ==
    /\ Called
    /\ Len(csv.orders) = 2
    /\ csv.orders[1].order_purchase_timestamp = <<2023, 1, 1, 23>>
    /\ csv.orders[2].order_purchase_timestamp = <<2022, 12, 26, 0>>
    /\ Len(summary_df) = 1
    /\ summary_df[1].order_purchase_week = "2023-01-01"
    /\ summary_df[1].count = 2

\* the sum of the prices of a set of joined rows, the item position being x[k]
RECURSIVE SumPriceOver(_, _)
SumPriceOver(S, k) ==
    IF S = {} THEN 0
    ELSE LET x == CHOOSE y \in S : TRUE
         IN  object_map.order_items[x[k]].price + SumPriceOver(S \ {x}, k)

\* the week label of a joined row, from the CSV timestamp of its order
LabelOf(x) == SundayLabel(csv.orders[x[1]].order_purchase_timestamp)

\* the summary holds exactly one row per (product, week) of the joined rows J
\* (item position k), with their number as count and their prices as sum
SummaryAggregates(J, k) ==
    Called => \A p \in Range(ProductIds) : Admits(last_product_list, p) =>
        LET mine == {x \in J : object_map.order_items[x[k]].product_id = p}
        IN  /\ \A i \in RowsOf(summary_df, p) : \E x \in mine : LabelOf(x) = summary_df[i].order_purchase_week
            /\ \A x \in mine :
                LET week == {y \in mine : LabelOf(y) = LabelOf(x)}
                    rows == {i \in RowsOf(summary_df, p) : summary_df[i].order_purchase_week = LabelOf(x)}
                IN  /\ Cardinality(rows) = 1
                    /\ \A i \in rows : summary_df[i].count = Cardinality(week) /\ summary_df[i].sum = SumPriceOver(week, k)

\* C9 as claimed: the summary rows are the (product, week) groups of the
\* joined Order-Customer-OrderItem rows.
C9_RowsOfCustomerJoin == SummaryAggregates(TriplesOCI, 3)

\* C9 amended: the summary rows are the (product, week) groups of the joined
\* Order-OrderItem rows, count their number and sum the sum of their prices;
\* the customers table plays no part.
C9_RowsOfOrderItemJoin == SummaryAggregates(PairsOI, 2)

\* C9 witness: a summary row counts two items of one order whose customer is
\* not in the customers table.
C9_Witness ==
    /\ Called
    /\ \E i \in 1..Len(summary_df) : summary_df[i].count = 2 /\ summary_df[i].sum = 30
    /\ Cardinality({x[1] : x \in PairsOI}) = 1
    /\ TriplesOCI = {}

RECURSIVE SumBreakdown(_, _, _)
SumBreakdown(breakdown, cities, field) ==
    IF cities = {} THEN 0
    ELSE LET c == CHOOSE y \in cities : TRUE
         IN  breakdown[c][field] + SumBreakdown(breakdown, cities \ {c}, field)

\* C10 as claimed: every summary row carries a per-city breakdown whose
\* sales_count values sum to its count and whose sales_sum values sum to its sum.
C10_BreakdownSums ==
    Called => \A i \in 1..Len(summary_df) :
        /\ "city_breakdown" \in DOMAIN summary_df[i]
        /\ SumBreakdown(summary_df[i].city_breakdown, DOMAIN summary_df[i].city_breakdown, "sales_count") = summary_df[i].count
        /\ SumBreakdown(summary_df[i].city_breakdown, DOMAIN summary_df[i].city_breakdown, "sales_sum") = summary_df[i].sum

\* the joined Order-Customer-OrderItem rows of summary row i, and their cities
CityRows(i) ==
    {x \in TriplesOCI :
        /\ object_map.order_items[x[3]].product_id = summary_df[i].product_id
        /\ LabelOf(x) = summary_df[i].order_purchase_week}

RECURSIVE SumCityCounts(_, _)
SumCityCounts(K, cities) ==
    IF cities = {} THEN 0
    ELSE LET c == CHOOSE y \in cities : TRUE
         IN  Cardinality({x \in K : object_map.customers[x[2]].customer_city = c}) + SumCityCounts(K, cities \ {c})

RECURSIVE SumCitySums(_, _)
SumCitySums(K, cities) ==
    IF cities = {} THEN 0
    ELSE LET c == CHOOSE y \in cities : TRUE
         IN  SumPriceOver({x \in K : object_map.customers[x[2]].customer_city = c}, 3) + SumCitySums(K, cities \ {c})

\* every order with an item in summary row i has exactly one customer row
OneCustomerEach(i) ==
    \A x \in PairsOI :
        (/\ object_map.order_items[x[2]].product_id = summary_df[i].product_id
         /\ LabelOf(x) = summary_df[i].order_purchase_week)
        => Cardinality({c \in 1..Len(object_map.customers) : object_map.customers[c].customer_id = object_map.orders[x[1]].customer_id}) = 1

\* C10 amended: a summary row holds product_id, week label, sum and count and
\* no per-city breakdown; the per-city sales counts and sales sums of its
\* product and week, taken over the joined Order-Customer-OrderItem rows, add
\* up to its count and its sum whenever each of its orders has exactly one
\* customer row.
C10_CityPartialsAddUp ==
    Called => \A i \in 1..Len(summary_df) :
        /\ DOMAIN summary_df[i] = {"product_id", "order_purchase_week", "sum", "count"}
        /\ OneCustomerEach(i) =>
            LET cities == {object_map.customers[x[2]].customer_city : x \in CityRows(i)}
            IN  /\ SumCityCounts(CityRows(i), cities) = summary_df[i].count
                /\ SumCitySums(CityRows(i), cities) = summary_df[i].sum

\* C10 witness: a summary row of two sales in two cities, each order with its
\* one customer row.
C10_Witness ==
    /\ Called
    /\ \E i \in 1..Len(summary_df) :
        /\ summary_df[i].count = 2
        /\ OneCustomerEach(i)
        /\ Cardinality({object_map.customers[x[2]].customer_city : x \in CityRows(i)}) = 2

----------------------------------------------------------------------------
(* The three aggregators called one by one on a loaded DataCalculator.     *)

\* Inputs of the aggregator calls: the general family with both reviews.
AggInputs == {in \in GeneralInputs : Len(in.order_reviews) = 2}

AggInit ==
    /\ csv \in AggInputs
    /\ pc = "ready"
    /\ object_map = _read_files(csv)
    /\ summary_df = <<>>
    /\ product_ratings_df = <<>>
    /\ product_sales_by_city_df = <<>>
    /\ last_product_list = None
    /\ output = <<>>
    /\ n_calls = 0
    /\ raised = ""
    /\ returned = NoReturn
    /\ output_directory = NoDirectory
    /\ save_frame = NoFrame
    /\ other = NoInstance

\* data_object.calculate_summary(product_list)
CalculateSummary(product_list) ==
    /\ pc = "ready"
    /\ returned.calls < MaxCalls
    /\ returned' = [fn |-> "calculate_summary", product_list |-> product_list, value |-> calculate_summary(object_map, product_list), calls |-> returned.calls + 1]
    /\ \E copied \in BOOLEAN : object_map' = tables_after(object_map, calculate_summary_assigns(object_map, copied))
    /\ UNCHANGED <<csv, pc, summary_df, product_ratings_df, product_sales_by_city_df, last_product_list, output, n_calls, raised, output_directory, save_frame, other>>

\* data_object.calculate_product_ratings(product_list)
CalculateProductRatings(product_list) ==
    /\ pc = "ready"
    /\ returned.calls < MaxCalls
    /\ returned' = [fn |-> "calculate_product_ratings", product_list |-> product_list, value |-> calculate_product_ratings(object_map, product_list), calls |-> returned.calls + 1]
    /\ \E copied \in BOOLEAN : object_map' = tables_after(object_map, calculate_product_ratings_assigns(object_map, copied))
    /\ UNCHANGED <<csv, pc, summary_df, product_ratings_df, product_sales_by_city_df, last_product_list, output, n_calls, raised, output_directory, save_frame, other>>

\* data_object.calculate_product_sales_by_city(product_list)
CalculateProductSalesByCity(product_list) ==
    /\ pc = "ready"
    /\ returned.calls < MaxCalls
    /\ returned' = [fn |-> "calculate_product_sales_by_city", product_list |-> product_list, value |-> calculate_product_sales_by_city(object_map, product_list), calls |-> returned.calls + 1]
    /\ \E copied \in BOOLEAN : object_map' = tables_after(object_map, calculate_product_sales_by_city_assigns(object_map, copied))
    /\ UNCHANGED <<csv, pc, summary_df, product_ratings_df, product_sales_by_city_df, last_product_list, output, n_calls, raised, output_directory, save_frame, other>>

AggNext ==
    \E product_list \in ProductLists :
        \/ CalculateSummary(product_list)
        \/ CalculateProductRatings(product_list)
        \/ CalculateProductSalesByCity(product_list)

AggSpec == AggInit /\ [][AggNext]_vars

----------------------------------------------------------------------------
(* Two DataCalculator objects constructed from the same files, each called *)
(* on its own.                                                             *)

\* two orders, two customers, two reviews and MaxItems order items
PairInputs == {in \in AggInputs : Len(in.orders) = 2 /\ Len(in.customers) = 2 /\ Len(in.order_items) = MaxItems}

\* both constructors have returned
PairInit ==
    /\ csv \in PairInputs
    /\ pc = "ready"
    /\ object_map = _read_files(csv)
    /\ summary_df = <<>>
    /\ product_ratings_df = <<>>
    /\ product_sales_by_city_df = <<>>
    /\ last_product_list = None
    /\ output = <<>>
    /\ n_calls = 0
    /\ raised = ""
    /\ returned = NoReturn
    /\ output_directory = NoDirectory
    /\ save_frame = NoFrame
    /\ other = [object_map |-> _read_files(csv), output |-> <<>>, last_product_list |-> None, n_calls |-> 0]

\* calculate_index(product_list) on the second object
OtherCalculateIndex(product_list) ==
    /\ pc = "ready"
    /\ other.n_calls < MaxCalls
    /\ LET locals == calculate_index(other.object_map, product_list)
       IN  \E copied \in BOOLEAN :
               other' = [object_map |-> calculate_index_tables(other.object_map, copied, locals.output_df),
                         output |-> store_output(other.output, locals.output_df),
                         last_product_list |-> product_list,
                         n_calls |-> other.n_calls + 1]
    /\ UNCHANGED <<csv, pc, object_map, summary_df, product_ratings_df, product_sales_by_city_df, last_product_list, output, n_calls, raised, returned, output_directory, save_frame>>

PairNext ==
    \E product_list \in ProductLists :
        \/ CalculateIndex(product_list)
        \/ OtherCalculateIndex(product_list)

PairSpec == PairInit /\ [][PairNext]_vars

----------------------------------------------------------------------------
(* save_output_to_parquet on a DataCalculator whose calculate_index has    *)
(* returned.  An output of n products is n rows with the products numbered *)
(* 1..n in row order, the first product having a second row (a second      *)
(* week) or not; of the other columns the week label and the top cities    *)
(* are carried.                                                            *)

\* numbers of products: few, and around each multiple of the partition size
ProductCounts == (0..MaxFew) \cup {k * PARTITION_SIZE + d : k \in 1..MaxChunks, d \in {-1, 0, 1}}

OutputOf(n, weeks, top) ==
    LET first == [w \in 1..(IF n > 0 THEN weeks ELSE 0) |-> [product_id |-> 1, order_purchase_week |-> IF w = 1 THEN "2023-01-08" ELSE "2023-01-15", customer_city |-> top]]
    IN  first \o [i \in 1..(n - 1) |-> [product_id |-> i + 1, order_purchase_week |-> "2023-01-08", customer_city |-> Cell("list", <<"sp">>)]]

\* the first product has top cities, or none (the filled 0)
SaveOutputs ==
    {OutputOf(n, 1, Cell("list", <<"sp">>)) : n \in ProductCounts}
    \cup {OutputOf(n, 2, Cell("list", <<"sp">>)) : n \in 1..MaxFew}
    \cup {OutputOf(n, 1, Cell("int", 0)) : n \in 1..MaxFew}

\* the output directory before the call: missing, or holding stale entries
SaveDirectories == {NoDirectory, [exists |-> TRUE, stale |-> {"file", "dir"}, partitions |-> <<>>]}

SaveInit ==
    /\ csv = NoTables
    /\ pc = "aggregated"
    /\ object_map = NoTables
    /\ summary_df = <<>>
    /\ product_ratings_df = <<>>
    /\ product_sales_by_city_df = <<>>
    /\ last_product_list = None
    /\ output \in SaveOutputs
    /\ n_calls = 1
    /\ raised = ""
    /\ returned = NoReturn
    /\ output_directory \in SaveDirectories
    /\ save_frame = NoFrame
    /\ other = NoInstance

SaveNext ==
    \/ SaveClean
    \/ SaveCleanRaises
    \/ SaveListdirRaises
    \/ SaveWritePartition
    \/ SaveMakedirsRaises
    \/ SaveFromPandasRaises
    \/ SaveWriteRaises

SaveSpec == SaveInit /\ [][SaveNext]_vars

----------------------------------------------------------------------------
(* Properties of a run of main and of the sink.                            *)

SinkErrors == {"FileNotFoundError", "ArrowInvalid", "OSError"}

\* C11: in a run of main the steps happen in the order load-and-validate,
\* calculate_index, clear the output directory, write partitions: the
\* aggregation runs only on four loaded and validated tables; the directory
\* changes only after the aggregation has completed, and partitions are
\* written only after the clearing; after a failed load or a failed
\* aggregation nothing was aggregated into the output and the directory is
\* as it was; a sink failure occurs only after the aggregation has completed.
C11_MainStepOrder ==
    [][/\ (n_calls' # n_calls => pc = "ready" /\ raised = "" /\ OrdersSchemaValid(csv.orders) /\ object_map = _read_files(csv))
       /\ (output_directory' # output_directory => n_calls = 1 /\ pc \in {"aggregated", "writing"})
       /\ (output_directory'.partitions # output_directory.partitions => pc = "writing" /\ output_directory.stale = {})
       /\ (pc' = "load_failed" => n_calls' = 0 /\ output' = <<>> /\ output_directory' = output_directory /\ save_frame' = NoFrame)
       /\ (pc' = "aggregate_failed" => output' = output /\ output_directory' = output_directory /\ save_frame' = NoFrame)
       /\ (raised' \in SinkErrors => n_calls = 1 /\ pc \in {"aggregated", "writing"})]_vars

\* a run of main over a directory with stale entries has written a partition
C11_Witness ==
    /\ pc = "saved"
    /\ n_calls = 1
    /\ output_directory.stale = {}
    /\ Len(output_directory.partitions) = 1
    /\ output_directory.partitions[1] = output
    /\ output # <<>>

OutputColumns == {"product_id", "order_purchase_week", "sum", "count", "mean_product_rating", "customer_city"}

\* the stored output holds every row of each of the three views of the last
\* completed call, every column filled
FullyAssembled ==
    /\ ProductsOf(output) = ViewProducts
    /\ \A i \in 1..Len(output) : DOMAIN output[i] = OutputColumns
    /\ \A k \in 1..Len(summary_df) : \E i \in RowsOf(output, summary_df[k].product_id) :
            /\ output[i].order_purchase_week = summary_df[k].order_purchase_week
            /\ output[i].sum = summary_df[k].sum
            /\ output[i].count = summary_df[k].count
    /\ \A k \in 1..Len(product_ratings_df) : \A i \in RowsOf(output, product_ratings_df[k].product_id) :
            output[i].mean_product_rating = product_ratings_df[k].mean_product_rating
    /\ \A k \in 1..Len(product_sales_by_city_df) : \A i \in RowsOf(output, product_sales_by_city_df[k].product_id) :
            output[i].customer_city = Cell("list", product_sales_by_city_df[k].customer_city)

\* C12: the stored output is the empty table after construction, and a call
\* of calculate_index either leaves it exactly as it was (the call raised) or
\* replaces it by the fully assembled table of a completed call.
C12_OutputAllOrNothing ==
    [][/\ (pc = "new" /\ pc' = "ready" => output' = <<>>)
       /\ (pc = "ready" => \/ output' = output /\ n_calls' = n_calls
                           \/ n_calls' = n_calls + 1 /\ raised' = "" /\ FullyAssembled')]_vars

\* a call has raised after a completed one and the stored table is still there
C12_Witness ==
    /\ pc = "ready"
    /\ raised = "TypeError"
    /\ n_calls >= 1
    /\ output # <<>>
    /\ FullyAssembled

\* the place of a city in the order of the groups of one product (the group
\* keys are sorted)
CityPlace(c) == CHOOSE i \in 1..Len(CityNames) : CityNames[i] = c

CitiesOf(p) == {c \in Range(CityNames) : SalesCount(p, c) >= 1}

\* C13: the top_cities list of every product of calculate_product_sales_by_city
\* is exactly the first three (or all, if fewer) of its cities ranked by
\* sales_count descending, sales_count being the number of joined
\* Order-Customer-OrderItem rows of (product, city), and cities with equal
\* sales_count stand in the order of their groups.
C13_TopCitiesExact ==
    Called => \A k \in 1..Len(product_sales_by_city_df) :
        LET p == product_sales_by_city_df[k].product_id
            top == product_sales_by_city_df[k].customer_city
            sold == {e \in {[city |-> c, place |-> CityPlace(c), count |-> SalesCount(p, c)] : c \in Range(CityNames)} : e.count >= 1}
            before(e) == {d \in sold : d.count > e.count \/ (d.count = e.count /\ d.place < e.place)}
        IN  /\ Len(top) = Min(3, Cardinality(sold))
            /\ \A i \in 1..Len(top) : \E e \in sold : e.city = top[i] /\ Cardinality(before(e)) = i - 1

\* a product sold in four cities: the city of the order with two items comes
\* first although it is the last group, the next two have one sale each and
\* stand in group order, the fourth is cut
C13_Witness ==
    /\ Called
    /\ \E k \in 1..Len(product_sales_by_city_df) :
        LET p == product_sales_by_city_df[k].product_id
            top == product_sales_by_city_df[k].customer_city
        IN  /\ Cardinality(CitiesOf(p)) = 4
            /\ top = <<"ssa", "bh", "rio">>
            /\ SalesCount(p, "ssa") = 2
            /\ SalesCount(p, "bh") = 1
            /\ SalesCount(p, "sp") = 1

\* the sum of the review scores over a set of joined Order-OrderReview-OrderItem rows
RECURSIVE SumScoreOver(_)
SumScoreOver(S) ==
    IF S = {} THEN 0
    ELSE LET x == CHOOSE y \in S : TRUE
         IN  object_map.order_reviews[x[2]].review_score + SumScoreOver(S \ {x})

\* C14: calculate_product_ratings returns exactly one row for every product
\* (admitted by the allow-list, when one is in effect) that has a joined
\* Order-OrderReview-OrderItem row and none for a product without; the mean
\* rating of the row is the sum of the review scores of the joined rows of
\* the product divided by their number.
C14_MeanOverJoinedRows ==
    Called => \A p \in Range(ProductIds) : Admits(last_product_list, p) =>
        LET mine == {x \in TriplesORI : object_map.order_items[x[3]].product_id = p}
            rows == RowsOf(product_ratings_df, p)
        IN  /\ Cardinality(rows) = IF mine = {} THEN 0 ELSE 1
            /\ \A i \in rows :
                LET mean == product_ratings_df[i].mean_product_rating
                IN  mean.den > 0 /\ mean.num * Cardinality(mine) = mean.den * SumScoreOver(mine)

\* a product rated 5 in one order and 2 in another, two joined rows in all,
\* has the mean 7/2
C14_Witness ==
    /\ Called
    /\ \E i \in 1..Len(product_ratings_df) : product_ratings_df[i].mean_product_rating = [num |-> 7, den |-> 2]
    /\ Cardinality(TriplesORI) = 2

TwoDigits == <<"01", "02", "03", "04", "05", "06", "07", "08", "09", "10", "11", "12", "13", "14", "15", "16",
               "17", "18", "19", "20", "21", "22", "23", "24", "25", "26", "27", "28", "29", "30", "31">>

\* the strings of the form YYYY-MM-DD over the years of the explored inputs
DateLabels == {y \o "-" \o TwoDigits[m] \o "-" \o TwoDigits[d] : y \in {"2022", "2023", "2024"}, m \in 1..12, d \in 1..31}

\* C15: in every row of the assembled output the week label is a string of
\* the form YYYY-MM-DD or the literal "unknown", whichever of the three views
\* the product of the row is in.
C15_WeekLabelForm ==
    Called => \A i \in 1..Len(output) : output[i].order_purchase_week \in DateLabels \cup {"unknown"}

\* an output row of a product that has neither a ratings row nor a top-cities
\* row, next to a row of a product that has both, both with a date label
C15_Witness ==
    /\ Called
    /\ \E i, j \in 1..Len(output) :
        /\ RowsOf(product_ratings_df, output[i].product_id) = {}
        /\ RowsOf(product_sales_by_city_df, output[i].product_id) = {}
        /\ RowsOf(product_ratings_df, output[j].product_id) # {}
        /\ RowsOf(product_sales_by_city_df, output[j].product_id) # {}
        /\ output[i].order_purchase_week \in DateLabels
        /\ output[j].order_purchase_week \in DateLabels

\* the value an aggregator returns on a DataCalculator just constructed
FreshValue(fn, product_list) ==
    CASE fn = "calculate_summary" -> calculate_summary(_read_files(csv), product_list)
      [] fn = "calculate_product_ratings" -> calculate_product_ratings(_read_files(csv), product_list)
      [] fn = "calculate_product_sales_by_city" -> calculate_product_sales_by_city(_read_files(csv), product_list)
      [] OTHER -> <<>>

\* C16: after any sequence of calls of the three aggregators the four stored
\* tables are the tables as loaded (every frame a call assigns into is a frame
\* the call made, whether the getter of the orders copies or not), and the
\* value the last call returned, computed from the tables its object held
\* after the calls before it, is the value the aggregator returns on a
\* DataCalculator just constructed from the same files.
C16_TablesUnchanged ==
    /\ object_map = _read_files(csv)
    /\ returned.value = FreshValue(returned.fn, returned.product_list)

\* calculate_summary without a list has returned rows of two products after
\* an earlier aggregator call
C16_Witness ==
    /\ returned.calls >= 2
    /\ returned.fn = "calculate_summary"
    /\ ~Effective(returned.product_list)
    /\ Cardinality(ProductsOf(returned.value)) = 2

\* the partitions that hold row i of the output
PartitionsOfRow(i) == {k \in 1..Len(output_directory.partitions) : \E j \in 1..Len(output_directory.partitions[k]) : output_directory.partitions[k][j] = output[i]}

\* C17 as claimed: after a completed save_output_to_parquet every row of the
\* output is in exactly one partition directory, whatever the number of
\* distinct product ids.
C17_EveryRowInOnePartition ==
    pc = "saved" => \A i \in 1..Len(output) : Cardinality(PartitionsOfRow(i)) = 1

====
